---- MODULE Spec2Model ----
(***************************************************************************)
(* A model of the two documentation tools of the repository:               *)
(*   parse_adoc.py  (the file metrics indexer)                             *)
(*   stats.py       (the construct census)                                 *)
(* Text is modelled as a sequence of one-character strings, so that the    *)
(* string operations of the code (lstrip, strip, split, startswith,        *)
(* regular expressions) are computed as the code computes them.            *)
(***************************************************************************)
EXTENDS Naturals, Integers, Sequences, FiniteSets, Bags, TLC

VARIABLES
    \* analyze_file, one line at a time (parse_adoc.py)
    apc, raw_lines, total, alnum, special, comments, definitions, result,
    \* one indexer run: main / process_files (parse_adoc.py)
    ipc, base_dir, paths, fs, results, records, count,
    \* the SQLite store and write_to_db's connection (parse_adoc.py)
    db, txn, wpc, cursor, rescan,
    \* one census run (stats.py)
    cpc, filename, content, process, html_content, asciidoc_stats, html_stats,
    csvfile, stderr, exit_code, trace

avars == <<apc, raw_lines, total, alnum, special, comments, definitions, result>>
ivars == <<ipc, base_dir, paths, fs, results, records, count>>
dvars == <<db, txn, wpc, cursor, rescan>>
cvars == <<cpc, filename, content, process, html_content, asciidoc_stats,
           html_stats, csvfile, stderr, exit_code, trace>>
vars == <<avars, ivars, dvars, cvars>>

(***************************************************************************)
(* Bounds of the model.                                                    *)
(***************************************************************************)
MaxFileLen == 5
MaxPaths == 2
MaxBatch == 2
MaxDocLines == 2
MaxNodes == 2

(***************************************************************************)
(* Characters and Python's string operations.                              *)
(***************************************************************************)
NL == "\n"
Whitespace == {" ", NL, "\t"}
Digit == {"0", "1", "2", "3", "4", "5", "6", "7", "8", "9"}
Lower == {"a", "b", "c", "d", "e", "f", "g", "h", "i", "j", "k", "l", "m",
          "n", "o", "p", "q", "r", "s", "t", "u", "v", "w", "x", "y", "z"}
Upper == {"A", "B", "C", "D", "E", "F", "G", "H", "I", "J", "K", "L", "M",
          "N", "O", "P", "Q", "R", "S", "T", "U", "V", "W", "X", "Y", "Z"}
Punct == {"/", ":", "-", "=", "*", "+", "_", ".", "|", "[", "]", "{", "}",
          "<", ">", "~", "^", "BQ", "!", ",", "#"}
\* every character of the model ("BQ" stands for the backquote)
Sigma == Whitespace \cup Digit \cup Lower \cup Upper \cup Punct

\* str.isalnum on one character
IsAlnum(c) == c \in Digit \cup Lower \cup Upper

Drop(s, n) == SubSeq(s, n + 1, Len(s))
Take(s, n) == SubSeq(s, 1, n)

\* s.startswith(p)
StartsWith(s, p) == Len(s) >= Len(p) /\ Take(s, Len(p)) = p

\* s.endswith(p)
EndsWith(s, p) == Len(s) >= Len(p) /\ Drop(s, Len(s) - Len(p)) = p

RECURSIVE LStrip(_)
\* s.lstrip()
LStrip(s) ==
    IF s # <<>> /\ Head(s) \in Whitespace THEN LStrip(Tail(s)) ELSE s

RECURSIVE RStrip(_)
\* s.rstrip()
RStrip(s) ==
    IF s # <<>> /\ s[Len(s)] \in Whitespace THEN RStrip(Take(s, Len(s) - 1))
    ELSE s

\* s.strip()
Strip(s) == RStrip(LStrip(s))

RECURSIVE Find(_, _, _)
\* the index of the first c in s at or after i, or 0
Find(s, c, i) ==
    IF i > Len(s) THEN 0 ELSE IF s[i] = c THEN i ELSE Find(s, c, i + 1)

\* s.split(c, 1)
Split1(s, c) ==
    LET k == Find(s, c, 1)
    IN  IF k = 0 THEN <<s>> ELSE <<Take(s, k - 1), Drop(s, k)>>

RECURSIVE FileLines(_)
\* iterating a text file: each line keeps its newline, the last may lack one
FileLines(s) ==
    LET k == Find(s, NL, 1)
    IN  IF s = <<>> THEN <<>>
        ELSE IF k = 0 THEN <<s>>
        ELSE <<Take(s, k)>> \o FileLines(Drop(s, k))

RECURSIVE SplitLines(_)
\* s.splitlines(): lines without their newline, no empty line after a final one
SplitLines(s) ==
    LET k == Find(s, NL, 1)
    IN  IF s = <<>> THEN <<>>
        ELSE IF k = 0 THEN <<s>>
        ELSE <<Take(s, k - 1)>> \o SplitLines(Drop(s, k))

RECURSIVE ListsOf(_)
\* list(S) of a set S: its elements in some order
ListsOf(S) ==
    IF S = {} THEN {<<>>}
    ELSE UNION {{<<e>> \o l : l \in ListsOf(S \ {e})} : e \in S}

\* every string over an alphabet of at most n characters
StringsUpTo(A, n) == UNION {[1..k -> A] : k \in 0..n}

Range(f) == {f[i] : i \in DOMAIN f}

(***************************************************************************)
(* parse_adoc.py: analyze_file, the line classifier.                       *)
(***************************************************************************)
\* Python's None
None == [none |-> TRUE]

\* an empty dictionary
EmptyDict == [c \in {} |-> 0]

\* no renderer process has run
NoProcess == [returncode |-> -1, stdout |-> <<>>, stderr |-> ""]

\* nothing has been written to the report destination
NoOutput == [header |-> <<>>, rows |-> EmptyBag]

\* the (attribute, value) pair of a definition line (already lstripped)
ParseDefinitionNoStrip(line) ==
    LET rest == Strip(Drop(line, 1))
        parts == Split1(rest, ":")
    IN  <<Strip(parts[1]), IF Len(parts) > 1 THEN parts[2] ELSE <<>>>>

ParseDefinition(line) ==
    LET rest == Strip(Drop(line, 1))
        parts == Split1(rest, ":")
        attribute == Strip(parts[1])
        value == IF Len(parts) > 1 THEN Strip(parts[2]) ELSE <<>>
    IN  <<attribute, value>>

\* the running counters of analyze_file
Counters == [total |-> 0, alnum |-> 0, special |-> 0, comments |-> 0,
             definitions |-> {}]

\* a classifier whose comment branch falls through to the first-character test
LineStepFallThrough(st, raw) ==
    LET line == LStrip(raw)
        t == [st EXCEPT !.total = @ + 1]
        c == IF StartsWith(line, <<"/", "/">>)
             THEN [t EXCEPT !.comments = @ + 1] ELSE t
    IN  IF line = <<>> THEN t
        ELSE IF StartsWith(line, <<":">>)
        THEN LET d == ParseDefinition(line)
             IN  IF d[1] # <<>>
                 THEN [c EXCEPT !.definitions = @ \cup {d}] ELSE c
        ELSE IF IsAlnum(line[1]) THEN [c EXCEPT !.alnum = @ + 1]
        ELSE [c EXCEPT !.special = @ + 1]

\* the body of the loop over the lines of the file
LineStep(st, raw) ==
    LET line == LStrip(raw)
        t == [st EXCEPT !.total = @ + 1]
    IN  IF line = <<>> THEN t
        ELSE IF StartsWith(line, <<"/", "/">>)
        THEN [t EXCEPT !.comments = @ + 1]
        ELSE IF StartsWith(line, <<":">>)
        THEN LET d == ParseDefinition(line)
             IN  IF d[1] # <<>>
                 THEN [t EXCEPT !.definitions = @ \cup {d}] ELSE t
        ELSE IF IsAlnum(line[1]) THEN [t EXCEPT !.alnum = @ + 1]
        ELSE [t EXCEPT !.special = @ + 1]

RECURSIVE Basename(_)
\* os.path.basename
Basename(p) ==
    LET k == Find(p, "/", 1) IN IF k = 0 THEN p ELSE Basename(Drop(p, k))

\* the path stored for a file: relative to base_dir, or its basename
RelPath(path, base) ==
    IF StartsWith(path, base \o <<"/">>) THEN Drop(path, Len(base) + 1)
    ELSE Basename(path)

\* datetime.fromtimestamp(t).isoformat(): the text form of a timestamp
IsoFormat(t) == [iso |-> t]

\* the record analyze_file returns once every line is read
MakeRecord(path, base, st, acc, dlist) ==
    [path |-> RelPath(path, base),
     filename |-> Basename(RelPath(path, base)),
     created |-> IsoFormat(st.ctime),
     modified |-> IsoFormat(st.mtime),
     size |-> st.size,
     total_lines |-> acc.total,
     alnum_start |-> acc.alnum,
     special_start |-> acc.special,
     comment_lines |-> acc.comments,
     definition_count |-> Cardinality(acc.definitions),
     definitions_list |-> dlist]

RECURSIVE FoldLines(_, _)
\* the counters after the whole loop over the lines
FoldLines(st, lines) ==
    IF lines = <<>> THEN st ELSE FoldLines(LineStep(st, Head(lines)), Tail(lines))

\* os.stat of a file of the model
Stat(f) == [ctime |-> f.ctime, mtime |-> f.mtime, size |-> Len(f.content)]

\* analyze_file returning what it has counted when the read fails
AnalyzeFilePartial(path, base, f) ==
    IF f.status = "nostat" THEN {None}
    ELSE IF f.status = "noread"
    THEN {MakeRecord(path, base, Stat(f), Counters, <<>>)}
    ELSE LET acc == FoldLines(Counters, FileLines(f.content))
         IN  {MakeRecord(path, base, Stat(f), acc, dl) :
                 dl \in ListsOf(acc.definitions)}

\* analyze_file as a whole: the values it can return for file f at path
\* (None when stat or the read fails; the order of definitions_list is that
\* of a set, so any)
AnalyzeFile(path, base, f) ==
    IF f.status \in {"nostat", "noread"} THEN {None}
    ELSE LET acc == FoldLines(Counters, FileLines(f.content))
         IN  {MakeRecord(path, base, Stat(f), acc, dl) :
                 dl \in ListsOf(acc.definitions)}

(***************************************************************************)
(* parse_adoc.py: the SQLite store and write_to_db.  A table is a bag of   *)
(* rows, so that a row inserted twice would show.                          *)
(***************************************************************************)
\* the five tables of SCHEMA, empty
EmptyDb == [files |-> EmptyBag, attributes |-> EmptyBag,
            values_tbl |-> EmptyBag, file_attributes |-> EmptyBag,
            attribute_values |-> EmptyBag]

\* an INSERT that adds its row whether or not the key is there
InsertAlways(tbl, row) == tbl (+) SetToBag({row})

\* INSERT OR IGNORE into a table whose primary key is the whole row
InsertOrIgnore(tbl, row) ==
    IF BagIn(row, tbl) THEN tbl ELSE tbl (+) SetToBag({row})

\* INSERT OR REPLACE INTO files: the row of the same path is replaced
InsertOrReplace(tbl, row) ==
    LET keep == {r \in BagToSet(tbl) : r.path # row.path}
    IN  [r \in keep |-> tbl[r]] (+) SetToBag({row})

\* the row of the files table a record gives
FileRow(r) ==
    [path |-> r.path, filename |-> r.filename, created |-> r.created,
     modified |-> r.modified, size |-> r.size,
     total_lines |-> r.total_lines, alnum_start |-> r.alnum_start,
     special_start |-> r.special_start, comment_lines |-> r.comment_lines,
     definition_count |-> r.definition_count]

RECURSIVE DefinitionStatementsSkipEmpty(_, _)
\* the inserts of the definitions, the value insert left out for an empty value
DefinitionStatementsSkipEmpty(path, dl) ==
    IF dl = <<>> THEN <<>>
    ELSE LET attr == Head(dl)[1]
             val == Head(dl)[2]
         IN  << [sql |-> "insert_attr", row |-> attr] >>
             \o (IF val = <<>> THEN <<>>
                 ELSE << [sql |-> "insert_val", row |-> val] >>)
             \o << [sql |-> "insert_file_attr", row |-> <<path, attr>>],
                   [sql |-> "insert_attr_val", row |-> <<attr, val>>] >>
             \o DefinitionStatementsSkipEmpty(path, Tail(dl))

RECURSIVE DefinitionStatements(_, _)
\* the four inserts of each definition of a record, in list order
DefinitionStatements(path, dl) ==
    IF dl = <<>> THEN <<>>
    ELSE LET attr == Head(dl)[1]
             val == Head(dl)[2]
         IN  << [sql |-> "insert_attr", row |-> attr],
                [sql |-> "insert_val", row |-> val],
                [sql |-> "insert_file_attr", row |-> <<path, attr>>],
                [sql |-> "insert_attr_val", row |-> <<attr, val>>] >>
             \o DefinitionStatements(path, Tail(dl))

RECURSIVE Statements(_)
\* every statement write_to_db executes for a list of records, in order
Statements(rs) ==
    IF rs = <<>> THEN <<>>
    ELSE << [sql |-> "insert_file", row |-> FileRow(Head(rs))] >>
         \o DefinitionStatements(Head(rs).path, Head(rs).definitions_list)
         \o Statements(Tail(rs))

\* cur.execute of one statement on the tables the connection sees
Execute(t, stmt) ==
    CASE stmt.sql = "insert_file" ->
            [t EXCEPT !.files = InsertOrReplace(@, stmt.row)]
      [] stmt.sql = "insert_attr" ->
            [t EXCEPT !.attributes = InsertOrIgnore(@, stmt.row)]
      [] stmt.sql = "insert_val" ->
            [t EXCEPT !.values_tbl = InsertOrIgnore(@, stmt.row)]
      [] stmt.sql = "insert_file_attr" ->
            [t EXCEPT !.file_attributes = InsertOrIgnore(@, stmt.row)]
      [] stmt.sql = "insert_attr_val" ->
            [t EXCEPT !.attribute_values = InsertOrIgnore(@, stmt.row)]

RECURSIVE ExecuteAll(_, _)
ExecuteAll(t, stmts) ==
    IF stmts = <<>> THEN t ELSE ExecuteAll(Execute(t, Head(stmts)), Tail(stmts))

\* the store after a whole successful write_to_db of the records
WriteToDb(store, rs) == ExecuteAll(store, Statements(rs))

\* a connection in autocommit mode: every statement is durable at once
DurableAutocommit(store, view) == view

\* the durable store after a statement that was not committed: sqlite3 opens
\* a transaction before the first INSERT, so nothing is durable before commit
DurableAfterExecute(store, view) == store

(***************************************************************************)
(* analyze_file, line by line.                                             *)
(***************************************************************************)
AnalyzeAlphabet == {"/", ":", "a", " ", NL}

Str_foo_bar == <<":", "f", "o", "o", ":", " ", "b", "a", "r", NL>>
Str_flagonly == <<":", "f", "l", "a", "g", "o", "n", "l", "y", ":", NL>>
Str_colon == <<":", NL>>
ExampleFiles == {Str_foo_bar, Str_flagonly, Str_colon}

AnalyzedPath == <<"/", "c", "/", "x", ".", "a", "d", "o", "c">>
AnalyzedBase == <<"/", "c">>

RECURSIVE Concat(_)
Concat(ls) == IF ls = <<>> THEN <<>> ELSE Head(ls) \o Concat(Tail(ls))

AccNow == [total |-> total, alnum |-> alnum, special |-> special,
           comments |-> comments, definitions |-> definitions]

\* os.stat succeeded: the counters are zeroed and the file is opened
StatOk ==
    /\ apc = "stat"
    /\ apc' = "read"
    /\ total' = 0 /\ alnum' = 0 /\ special' = 0 /\ comments' = 0
    /\ definitions' = {}
    /\ UNCHANGED <<raw_lines, result>>
    /\ UNCHANGED <<ivars, dvars, cvars>>

\* os.stat raised OSError: logged, None returned
StatFail ==
    /\ apc = "stat"
    /\ apc' = "done" /\ result' = None
    /\ UNCHANGED <<raw_lines, total, alnum, special, comments, definitions>>
    /\ UNCHANGED <<ivars, dvars, cvars>>

\* one iteration of "for raw in f"
ReadLine ==
    /\ apc = "read" /\ total < Len(raw_lines)
    /\ LET st == LineStep(AccNow, raw_lines[total + 1])
       IN  /\ total' = st.total /\ alnum' = st.alnum
           /\ special' = st.special /\ comments' = st.comments
           /\ definitions' = st.definitions
    /\ UNCHANGED <<apc, raw_lines, result>>
    /\ UNCHANGED <<ivars, dvars, cvars>>

\* open or a read raised: logged, None returned
ReadFail ==
    /\ apc = "read"
    /\ apc' = "done" /\ result' = None
    /\ UNCHANGED <<raw_lines, total, alnum, special, comments, definitions>>
    /\ UNCHANGED <<ivars, dvars, cvars>>

\* the file is exhausted: the record is returned
Return ==
    /\ apc = "read" /\ total = Len(raw_lines)
    /\ apc' = "done"
    /\ \E dl \in ListsOf(definitions) :
          result' = MakeRecord(AnalyzedPath, AnalyzedBase,
              [ctime |-> 1, mtime |-> 1, size |-> Len(Concat(raw_lines))],
              AccNow, dl)
    /\ UNCHANGED <<raw_lines, total, alnum, special, comments, definitions>>
    /\ UNCHANGED <<ivars, dvars, cvars>>

AnalyzeNext == StatOk \/ StatFail \/ ReadLine \/ ReadFail \/ Return


\* analyze_file about to run on one file of at most MaxFileLen characters (or
\* one of the example files); the other tools are not running
AnalyzeInit ==
    /\ apc = "stat"
    /\ raw_lines \in {FileLines(s) :
          s \in StringsUpTo(AnalyzeAlphabet, MaxFileLen) \cup ExampleFiles}
    /\ result = None
    /\ total = 0 /\ alnum = 0 /\ special = 0 /\ comments = 0
    /\ definitions = {}
    /\ ipc = "idle" /\ base_dir = <<>> /\ paths = <<>> /\ fs = <<>>
    /\ results = <<>> /\ records = <<>> /\ count = 0
    /\ db = EmptyDb /\ txn = EmptyDb /\ wpc = "idle" /\ cursor = 0
    /\ rescan = FALSE
    /\ cpc = "idle" /\ filename = "" /\ content = <<>>
    /\ process = NoProcess /\ html_content = <<>>
    /\ asciidoc_stats = EmptyDict /\ html_stats = EmptyDict
    /\ csvfile = NoOutput /\ stderr = <<>> /\ exit_code = 0 /\ trace = <<>>

\* analyze_file on one file, line by line
SpecAnalyze == AnalyzeInit /\ [][AnalyzeNext]_vars

(***************************************************************************)
(* The files, paths and directories the indexer runs are drawn from.       *)
(***************************************************************************)
Dir_c == <<"/", "c">>
Dir_root == <<"/">>
Path_c_x == <<"/", "c", "/", "x", ".", "a", "d", "o", "c">>
Path_a_x == <<"/", "a", "/", "x", ".", "a", "d", "o", "c">>
Path_c_d_Y == <<"/", "c", "/", "d", "/", "Y", ".", "A", "D", "O", "C">>
Path_c_n == <<"/", "c", "/", "n", ".", "t", "x", "t">>
PathUniverse == {Path_c_x, Path_a_x, Path_c_d_Y, Path_c_n}

\* ":a: b" and a flag
Text_defs == <<":", "a", ":", " ", "b", NL, ":", "k", NL, "/", "/", "c", NL>>
\* ":a: b" twice, a blank line and a text line
Text_dup == <<":", "a", ":", " ", "b", NL, NL, ":", "a", ":", "b", NL, "x">>

File_defs == [status |-> "ok", content |-> Text_defs, ctime |-> 1, mtime |-> 1]
File_dup == [status |-> "ok", content |-> Text_dup, ctime |-> 1, mtime |-> 2]
File_nostat == [status |-> "nostat", content |-> <<>>, ctime |-> 0, mtime |-> 0]
File_noread == [status |-> "noread", content |-> Text_defs, ctime |-> 1,
                mtime |-> 1]
FilePool == {File_defs, File_dup, File_nostat, File_noread}

(***************************************************************************)
(* write_to_db, statement by statement, over successive runs.              *)
(***************************************************************************)
\* the records a run can hand to write_to_db
RecordPool ==
    UNION {AnalyzeFile(p, Dir_c, f) :
             p \in {Path_c_x, Path_c_d_Y}, f \in {File_defs, File_dup}}

Batches == UNION {[1..n -> RecordPool] : n \in 0..MaxBatch}

StoreInit ==
    /\ db = EmptyDb /\ txn = EmptyDb /\ wpc = "idle" /\ cursor = 0
    /\ rescan = FALSE /\ records = <<>> /\ count = 0
    /\ apc = "idle" /\ raw_lines = <<>> /\ result = None
    /\ total = 0 /\ alnum = 0 /\ special = 0 /\ comments = 0
    /\ definitions = {}
    /\ ipc = "idle" /\ base_dir = <<>> /\ paths = <<>> /\ fs = <<>>
    /\ results = <<>>
    /\ cpc = "idle" /\ filename = "" /\ content = <<>>
    /\ process = NoProcess /\ html_content = <<>>
    /\ asciidoc_stats = EmptyDict /\ html_stats = EmptyDict
    /\ csvfile = NoOutput /\ stderr = <<>> /\ exit_code = 0 /\ trace = <<>>

StoreUnchanged ==
    UNCHANGED <<avars, cvars, ipc, base_dir, paths, fs, results>>

\* a run reaches write_to_db with the records of a scan: connect, cursor,
\* executescript(SCHEMA) (the tables exist from then on)
Connect ==
    /\ wpc \in {"idle", "committed"}
    /\ \E rs \in Batches : records' = rs
    /\ wpc' = "insert" /\ txn' = db /\ cursor' = 0 /\ rescan' = FALSE
    /\ UNCHANGED <<db, count>>
    /\ StoreUnchanged

\* the next run scans the unchanged directory: the same records again
ConnectRescan ==
    /\ wpc = "committed"
    /\ wpc' = "insert" /\ txn' = db /\ cursor' = 0 /\ rescan' = TRUE
    /\ UNCHANGED <<db, count, records>>
    /\ StoreUnchanged

\* cur.execute of the next statement succeeds
ExecuteNext ==
    /\ wpc = "insert" /\ cursor < Len(Statements(records))
    /\ txn' = Execute(txn, Statements(records)[cursor + 1])
    /\ db' = DurableAfterExecute(db, txn')
    /\ cursor' = cursor + 1
    /\ UNCHANGED <<wpc, rescan, records, count>>
    /\ StoreUnchanged

\* the next statement, or the commit, raises: nothing catches it, the process
\* ends and the open transaction is rolled back
StorageError ==
    /\ wpc = "insert"
    /\ wpc' = "crashed" /\ txn' = db
    /\ UNCHANGED <<db, cursor, rescan, records, count>>
    /\ StoreUnchanged

\* conn.commit(), conn.close(), return len(records)
Commit ==
    /\ wpc = "insert" /\ cursor = Len(Statements(records))
    /\ db' = txn /\ wpc' = "committed" /\ count' = Len(records)
    /\ UNCHANGED <<txn, cursor, rescan, records>>
    /\ StoreUnchanged

\* the crashed process is gone; the store is what a later run finds
ProcessGone ==
    /\ wpc = "crashed"
    /\ wpc' = "idle" /\ records' = <<>> /\ cursor' = 0
    /\ UNCHANGED <<db, txn, rescan, count>>
    /\ StoreUnchanged

StoreNext ==
    \/ Connect \/ ConnectRescan \/ ExecuteNext \/ StorageError \/ Commit
    \/ ProcessGone

\* successive runs of write_to_db on one store
SpecStore == StoreInit /\ [][StoreNext]_vars

(***************************************************************************)
(* One run of the indexer: main, process_files, write_to_db.               *)
(***************************************************************************)
UpperSeq == <<"A", "B", "C", "D", "E", "F", "G", "H", "I", "J", "K", "L", "M",
              "N", "O", "P", "Q", "R", "S", "T", "U", "V", "W", "X", "Y", "Z">>
LowerSeq == <<"a", "b", "c", "d", "e", "f", "g", "h", "i", "j", "k", "l", "m",
              "n", "o", "p", "q", "r", "s", "t", "u", "v", "w", "x", "y", "z">>

\* str.lower
ToLower(s) ==
    [i \in 1..Len(s) |->
        IF s[i] \in Upper
        THEN LowerSeq[CHOOSE k \in 1..Len(UpperSeq) : UpperSeq[k] = s[i]]
        ELSE s[i]]

\* the files os.walk(base) finds among the existing ones, filtered on '.adoc'
Walk(base, existing) ==
    {p \in existing :
        /\ \/ base = Dir_root
           \/ StartsWith(p, base \o <<"/">>)
        /\ EndsWith(ToLower(Basename(p)), <<".", "a", "d", "o", "c">>)}

\* a future of executor.map that has not completed
Pending == [pending |-> TRUE]
\* a result the generator has already yielded or dropped
Yielded == [yielded |-> TRUE]

ScanInit ==
    /\ ipc = "start" /\ base_dir = <<>> /\ paths = <<>> /\ fs = <<>>
    /\ results = <<>> /\ records = <<>> /\ count = 0
    /\ db = EmptyDb /\ txn = EmptyDb /\ wpc = "idle" /\ cursor = 0
    /\ rescan = FALSE
    /\ apc = "idle" /\ raw_lines = <<>> /\ result = None
    /\ total = 0 /\ alnum = 0 /\ special = 0 /\ comments = 0
    /\ definitions = {}
    /\ cpc = "idle" /\ filename = "" /\ content = <<>>
    /\ process = NoProcess /\ html_content = <<>>
    /\ asciidoc_stats = EmptyDict /\ html_stats = EmptyDict
    /\ csvfile = NoOutput /\ stderr = <<>> /\ exit_code = 0 /\ trace = <<>>

ScanUnchanged == UNCHANGED <<avars, cvars, txn, wpc, cursor, rescan>>

\* directory is '-': base_dir is the working directory and the paths are the
\* non-empty lines of standard input; all of them are submitted to the pool
StartStdin ==
    /\ ipc = "start"
    /\ base_dir' = Dir_c
    /\ \E n \in 0..MaxPaths : \E ps \in [1..n -> PathUniverse] :
          /\ paths' = ps
          /\ fs' \in [Range(ps) -> FilePool]
          /\ results' = [i \in 1..n |-> Pending]
    /\ ipc' = "analyze"
    /\ UNCHANGED <<records, count, db>>
    /\ ScanUnchanged

\* directory is a directory: the paths are those os.walk yields, in its order
StartDirectory ==
    /\ ipc = "start"
    /\ \E base \in {Dir_c, Dir_root} : \E existing \in SUBSET PathUniverse :
       \E ps \in ListsOf(Walk(base, existing)) :
          /\ base_dir' = base
          /\ paths' = ps
          /\ fs' \in [Range(ps) -> FilePool]
          /\ results' = [i \in 1..Len(ps) |-> Pending]
    /\ ipc' = "analyze"
    /\ UNCHANGED <<records, count, db>>
    /\ ScanUnchanged

\* directory is missing or no directory: usage is printed, exit status 1
Usage ==
    /\ ipc = "start"
    /\ ipc' = "exit1"
    /\ UNCHANGED <<base_dir, paths, fs, results, records, count, db>>
    /\ ScanUnchanged

\* a worker completes analyze_file on one of the submitted paths
Analyze ==
    /\ ipc = "analyze"
    /\ \E i \in 1..Len(paths) :
          /\ results[i] = Pending
          /\ \E r \in AnalyzeFile(paths[i], base_dir, fs[paths[i]]) :
                results' = [results EXCEPT ![i] = r]
    /\ UNCHANGED <<ipc, base_dir, paths, fs, records, count, db>>
    /\ ScanUnchanged

\* process_files takes the next result in submission order: "if result: yield"
Collect ==
    /\ ipc = "analyze"
    /\ \E i \in 1..Len(paths) :
          /\ \A j \in 1..(i - 1) : results[j] = Yielded
          /\ results[i] \notin {Pending, Yielded}
          /\ records' = IF results[i] = None THEN records
                        ELSE Append(records, results[i])
          /\ results' = [results EXCEPT ![i] = Yielded]
    /\ UNCHANGED <<ipc, base_dir, paths, fs, count, db>>
    /\ ScanUnchanged

\* records is complete: count = write_to_db(args.db, records)
Write ==
    /\ ipc = "analyze"
    /\ \A i \in 1..Len(paths) : results[i] = Yielded
    /\ db' = WriteToDb(db, records)
    /\ count' = Len(records)
    /\ ipc' = "done"
    /\ UNCHANGED <<base_dir, paths, fs, results, records>>
    /\ ScanUnchanged

ScanNext ==
    StartStdin \/ StartDirectory \/ Usage \/ Analyze \/ Collect \/ Write

\* one run of the indexer on an empty store
SpecScan == ScanInit /\ [][ScanNext]_vars

(***************************************************************************)
(* stats.py: regular expressions.  A pattern is a set of alternatives; an  *)
(* alternative is a sequence of items, each a character class repeated     *)
(* between min and max times (or without upper limit), with optional ^     *)
(* and $ anchors.  Every pattern of the two tables has this shape.         *)
(***************************************************************************)
\* '.': any character but a newline
AnyChar == Sigma \ {NL}
\* '\w'
WordChar == Lower \cup Upper \cup Digit \cup {"_"}

One(C) == [cls |-> C, min |-> 1, max |-> 1, unbounded |-> FALSE]
Rep(C, lo, hi) == [cls |-> C, min |-> lo, max |-> hi, unbounded |-> FALSE]
AtLeast(C, lo) == [cls |-> C, min |-> lo, max |-> lo, unbounded |-> TRUE]
Lits(s) == [i \in 1..Len(s) |-> One({s[i]})]

RECURSIVE RunLength(_, _, _)
\* how many characters of s from pos on are in C
RunLength(s, pos, C) ==
    IF pos <= Len(s) /\ s[pos] \in C THEN 1 + RunLength(s, pos + 1, C) ELSE 0

RECURSIVE Ends(_, _, _, _)
\* the positions after a match of items[i..] that starts at pos
Ends(items, i, s, pos) ==
    IF i > Len(items) THEN {pos}
    ELSE LET it == items[i]
             run == RunLength(s, pos, it.cls)
             hi == IF it.unbounded \/ run < it.max THEN run ELSE it.max
         IN  UNION {Ends(items, i + 1, s, pos + k) : k \in it.min..hi}

AltMatchesAt(a, s, start) ==
    \E e \in Ends(a.items, 1, s, start) : a.eol => e = Len(s) + 1

\* re.search(pattern, s) finds a match
ReSearch(pattern, s) ==
    \E a \in pattern :
       \E start \in (IF a.bol THEN {1} ELSE 1..(Len(s) + 1)) :
          AltMatchesAt(a, s, start)

\* re.match(pattern, s) finds a match (at the start of s)
ReMatch(pattern, s) == \E a \in pattern : AltMatchesAt(a, s, 1)

(***************************************************************************)
(* stats.py: the construct tables.                                         *)
(***************************************************************************)
\* ASCIIDOC_CONSTRUCTS, in the order of the dictionary
ASCIIDOC_CONSTRUCTS == <<
    [name |-> "headings",
     pattern |-> {[bol |-> TRUE, items |->
         <<Rep({"="}, 1, 6)>> \o <<AtLeast(Whitespace, 1)>>, eol |-> FALSE]}],
    [name |-> "bulleted_list",
     pattern |-> {[bol |-> TRUE, items |->
         <<One({"*", "-", "+"})>>
         \o <<AtLeast(Whitespace, 1)>>, eol |-> FALSE]}],
    [name |-> "ordered_list",
     pattern |-> {[bol |-> TRUE, items |->
         <<AtLeast(Digit, 1)>> \o Lits(<<".">>)
         \o <<AtLeast(Whitespace, 1)>>, eol |-> FALSE]}],
    [name |-> "blockquote",
     pattern |-> {[bol |-> TRUE, items |->
         <<AtLeast({"_"}, 3)>>, eol |-> FALSE]}],
    [name |-> "literal_block",
     pattern |-> {[bol |-> TRUE, items |->
         Lits(<<"+", "+", "+">>), eol |-> TRUE],
                 [bol |-> TRUE, items |->
                     Lits(<<"-", "-", "-", "-">>), eol |-> TRUE]}],
    [name |-> "fenced_block",
     pattern |-> {[bol |-> TRUE, items |->
         Lits(<<"BQ", "BQ", "BQ">>), eol |-> FALSE]}],
    [name |-> "comment_block",
     pattern |-> {[bol |-> TRUE, items |->
         <<AtLeast({"/"}, 4)>> \o Lits(<<" ">>), eol |-> FALSE]}],
    [name |-> "table",
     pattern |-> {[bol |-> TRUE, items |->
         Lits(<<"|", "=", "=", "=">>), eol |-> FALSE],
                 [bol |-> TRUE, items |-> Lits(<<".", "|">>), eol |-> FALSE]}],
    [name |-> "admonition",
     pattern |-> {[bol |-> TRUE, items |->
         Lits(<<"N", "O", "T", "E", ":">>)
         \o <<AtLeast(Whitespace, 1)>>, eol |-> FALSE],
                 [bol |-> TRUE, items |->
                     Lits(<<"T", "I", "P", ":">>)
                     \o <<AtLeast(Whitespace, 1)>>, eol |-> FALSE],
                 [bol |-> TRUE, items |->
                     Lits(<<"I", "M", "P", "O", "R", "T", "A", "N", "T", ":">>)
                     \o <<AtLeast(Whitespace, 1)>>, eol |-> FALSE],
                 [bol |-> TRUE, items |->
                     Lits(<<"C", "A", "U", "T", "I", "O", "N", ":">>)
                     \o <<AtLeast(Whitespace, 1)>>, eol |-> FALSE],
                 [bol |-> TRUE, items |->
                     Lits(<<"W", "A", "R", "N", "I", "N", "G", ":">>)
                     \o <<AtLeast(Whitespace, 1)>>, eol |-> FALSE]}],
    [name |-> "example_block",
     pattern |-> {[bol |-> TRUE, items |->
         Lits(<<"=", "=", "=", "=">>), eol |-> TRUE]}],
    [name |-> "sidebar_block",
     pattern |-> {[bol |-> TRUE, items |->
         <<Rep({"*"}, 4, 4)>>, eol |-> TRUE]}],
    [name |-> "listing_block",
     pattern |-> {[bol |-> TRUE, items |->
         Lits(<<"-", "-", "-", "-">>), eol |-> TRUE]}],
    [name |-> "verse_block",
     pattern |-> {[bol |-> TRUE, items |->
         Lits(<<"[", "v", "e", "r", "s", "e", "]">>), eol |-> FALSE]}],
    [name |-> "inline_bold",
     pattern |-> {[bol |-> FALSE, items |->
         Lits(<<"*", "*">>) \o <<AtLeast(AnyChar, 0)>>
         \o Lits(<<"*", "*">>), eol |-> FALSE]}],
    [name |-> "inline_italic",
     pattern |-> {[bol |-> FALSE, items |->
         Lits(<<"_", "_">>) \o <<AtLeast(AnyChar, 0)>>
         \o Lits(<<"_", "_">>), eol |-> FALSE]}],
    [name |-> "inline_monospace",
     pattern |-> {[bol |-> FALSE, items |->
         Lits(<<"BQ">>) \o <<AtLeast(AnyChar, 1)>>
         \o Lits(<<"BQ">>), eol |-> FALSE]}],
    [name |-> "inline_code",
     pattern |-> {[bol |-> FALSE, items |->
         Lits(<<"BQ">>) \o <<AtLeast(AnyChar, 1)>>
         \o Lits(<<"BQ">>), eol |-> FALSE]}],
    [name |-> "inline_subscript",
     pattern |-> {[bol |-> FALSE, items |->
         Lits(<<"~">>) \o <<AtLeast(AnyChar, 1)>>
         \o Lits(<<"~">>), eol |-> FALSE]}],
    [name |-> "inline_superscript",
     pattern |-> {[bol |-> FALSE, items |->
         Lits(<<"^">>) \o <<AtLeast(AnyChar, 1)>>
         \o Lits(<<"^">>), eol |-> FALSE]}],
    [name |-> "inline_underline",
     pattern |-> {[bol |-> FALSE, items |->
         Lits(<<"+", "+">>) \o <<AtLeast(AnyChar, 0)>>
         \o Lits(<<"+", "+">>), eol |-> FALSE]}],
    [name |-> "inline_link",
     pattern |-> {[bol |-> FALSE, items |->
         Lits(<<"h", "t", "t", "p">>) \o <<Rep({"s"}, 0, 1)>>
         \o Lits(<<":", "/", "/">>)
         \o <<AtLeast(Sigma \ Whitespace, 1)>>, eol |-> FALSE]}],
    [name |-> "inline_image",
     pattern |-> {[bol |-> FALSE, items |->
         Lits(<<"i", "m", "a", "g", "e", ":", ":">>)
         \o <<AtLeast(Sigma \ {"["}, 1)>> \o Lits(<<"[">>)
         \o <<AtLeast(AnyChar, 0)>> \o Lits(<<"]">>), eol |-> FALSE]}],
    [name |-> "inline_macro",
     pattern |-> {[bol |-> FALSE, items |->
         Lits(<<"{">>)
         \o <<AtLeast(Lower \cup Upper \cup Digit \cup {"_"}, 1)>>
         \o Lits(<<"}">>), eol |-> FALSE]}],
    [name |-> "inline_attributes",
     pattern |-> {[bol |-> TRUE, items |->
         Lits(<<":">>) \o <<AtLeast(AnyChar, 0)>>
         \o Lits(<<":">>), eol |-> FALSE]}],
    [name |-> "checklist",
     pattern |-> {[bol |-> TRUE, items |->
         Lits(<<"*", " ", "[">>) \o <<One(AnyChar)>>
         \o Lits(<<"]", " ">>), eol |-> FALSE]}],
    [name |-> "description_list",
     pattern |-> {[bol |-> TRUE, items |->
         <<One(Sigma \ Whitespace)>> \o <<AtLeast(AnyChar, 0)>>
         \o Lits(<<":", ":">>), eol |-> TRUE]}],
    [name |-> "attribute_definitions",
     pattern |-> {[bol |-> TRUE, items |->
         <<AtLeast(Whitespace, 0)>> \o Lits(<<":">>)
         \o <<AtLeast(WordChar, 1)>> \o Lits(<<":">>)
         \o <<AtLeast(Whitespace, 0)>>, eol |-> FALSE]}],
    [name |-> "cross_reference",
     pattern |-> {[bol |-> FALSE, items |->
         Lits(<<"<", "<">>) \o <<AtLeast(AnyChar, 1)>>
         \o Lits(<<">", ">">>), eol |-> FALSE]}],
    [name |-> "anchor",
     pattern |-> {[bol |-> FALSE, items |->
         Lits(<<"[", "[">>) \o <<AtLeast(AnyChar, 0)>>
         \o Lits(<<"]", "]">>), eol |-> FALSE]}],
    [name |-> "inline_quote",
     pattern |-> {[bol |-> TRUE, items |->
         <<AtLeast({"_"}, 3)>>, eol |-> FALSE]}],
    [name |-> "literal_paragraph",
     pattern |-> {[bol |-> TRUE, items |->
         Lits(<<"+", "+">>), eol |-> TRUE]}] >>

\* HTML_CONSTRUCTS, in the order of the dictionary; text is the pattern as
\* written ("BQ" for a backquote), which output_csv prints
HTML_CONSTRUCTS == <<
    [name |-> "headings", text |-> "^h[1-6]$",
     pattern |-> {[bol |-> TRUE, items |->
         Lits(<<"h">>)
         \o <<One({"1", "2", "3", "4", "5", "6"})>>, eol |-> TRUE]}],
    [name |-> "bulleted_list", text |-> "^ul$",
     pattern |-> {[bol |-> TRUE, items |-> Lits(<<"u", "l">>), eol |-> TRUE]}],
    [name |-> "ordered_list", text |-> "^ol$",
     pattern |-> {[bol |-> TRUE, items |-> Lits(<<"o", "l">>), eol |-> TRUE]}],
    [name |-> "blockquote", text |-> "^blockquote$",
     pattern |-> {[bol |-> TRUE, items |->
         Lits(<<"b", "l", "o", "c", "k", "q", "u", "o", "t", "e">>), eol |-> TRUE]}],
    [name |-> "literal_block", text |-> "^pre$",
     pattern |-> {[bol |-> TRUE, items |->
         Lits(<<"p", "r", "e">>), eol |-> TRUE]}],
    [name |-> "fenced_block", text |-> "^code$",
     pattern |-> {[bol |-> TRUE, items |->
         Lits(<<"c", "o", "d", "e">>), eol |-> TRUE]}],
    [name |-> "comment_block", text |-> "<!--",
     pattern |-> {[bol |-> FALSE, items |->
         Lits(<<"<", "!", "-", "-">>), eol |-> FALSE]}],
    [name |-> "table", text |-> "^table$",
     pattern |-> {[bol |-> TRUE, items |->
         Lits(<<"t", "a", "b", "l", "e">>), eol |-> TRUE]}],
    [name |-> "admonition", text |-> "^div.admonitionblock",
     pattern |-> {[bol |-> TRUE, items |->
         Lits(<<"d">>) \o Lits(<<"i">>) \o Lits(<<"v">>) \o <<One(AnyChar)>>
         \o Lits(<<"a">>) \o Lits(<<"d">>) \o Lits(<<"m">>) \o Lits(<<"o">>)
         \o Lits(<<"n">>) \o Lits(<<"i">>) \o Lits(<<"t">>) \o Lits(<<"i">>)
         \o Lits(<<"o">>) \o Lits(<<"n">>) \o Lits(<<"b">>) \o Lits(<<"l">>)
         \o Lits(<<"o">>) \o Lits(<<"c">>) \o Lits(<<"k">>), eol |-> FALSE]}],
    [name |-> "example_block", text |-> "^div.exampleblock",
     pattern |-> {[bol |-> TRUE, items |->
         Lits(<<"d">>) \o Lits(<<"i">>) \o Lits(<<"v">>) \o <<One(AnyChar)>>
         \o Lits(<<"e">>) \o Lits(<<"x">>) \o Lits(<<"a">>) \o Lits(<<"m">>)
         \o Lits(<<"p">>) \o Lits(<<"l">>) \o Lits(<<"e">>) \o Lits(<<"b">>)
         \o Lits(<<"l">>) \o Lits(<<"o">>) \o Lits(<<"c">>)
         \o Lits(<<"k">>), eol |-> FALSE]}],
    [name |-> "sidebar_block", text |-> "^div.sidebarblock",
     pattern |-> {[bol |-> TRUE, items |->
         Lits(<<"d">>) \o Lits(<<"i">>) \o Lits(<<"v">>) \o <<One(AnyChar)>>
         \o Lits(<<"s">>) \o Lits(<<"i">>) \o Lits(<<"d">>) \o Lits(<<"e">>)
         \o Lits(<<"b">>) \o Lits(<<"a">>) \o Lits(<<"r">>) \o Lits(<<"b">>)
         \o Lits(<<"l">>) \o Lits(<<"o">>) \o Lits(<<"c">>)
         \o Lits(<<"k">>), eol |-> FALSE]}],
    [name |-> "listing_block", text |-> "^pre$",
     pattern |-> {[bol |-> TRUE, items |->
         Lits(<<"p", "r", "e">>), eol |-> TRUE]}],
    [name |-> "verse_block", text |-> "^div.verseblock",
     pattern |-> {[bol |-> TRUE, items |->
         Lits(<<"d">>) \o Lits(<<"i">>) \o Lits(<<"v">>) \o <<One(AnyChar)>>
         \o Lits(<<"v">>) \o Lits(<<"e">>) \o Lits(<<"r">>) \o Lits(<<"s">>)
         \o Lits(<<"e">>) \o Lits(<<"b">>) \o Lits(<<"l">>) \o Lits(<<"o">>)
         \o Lits(<<"c">>) \o Lits(<<"k">>), eol |-> FALSE]}],
    [name |-> "inline_bold", text |-> "^strong$",
     pattern |-> {[bol |-> TRUE, items |->
         Lits(<<"s", "t", "r", "o", "n", "g">>), eol |-> TRUE]}],
    [name |-> "inline_italic", text |-> "^em$",
     pattern |-> {[bol |-> TRUE, items |-> Lits(<<"e", "m">>), eol |-> TRUE]}],
    [name |-> "inline_monospace", text |-> "^code$",
     pattern |-> {[bol |-> TRUE, items |->
         Lits(<<"c", "o", "d", "e">>), eol |-> TRUE]}],
    [name |-> "inline_code", text |-> "^code$",
     pattern |-> {[bol |-> TRUE, items |->
         Lits(<<"c", "o", "d", "e">>), eol |-> TRUE]}],
    [name |-> "inline_subscript", text |-> "sub",
     pattern |-> {[bol |-> FALSE, items |->
         Lits(<<"s", "u", "b">>), eol |-> FALSE]}],
    [name |-> "inline_superscript", text |-> "sup",
     pattern |-> {[bol |-> FALSE, items |->
         Lits(<<"s", "u", "p">>), eol |-> FALSE]}],
    [name |-> "inline_underline", text |-> "u",
     pattern |-> {[bol |-> FALSE, items |-> Lits(<<"u">>), eol |-> FALSE]}],
    [name |-> "inline_link", text |-> "a",
     pattern |-> {[bol |-> FALSE, items |-> Lits(<<"a">>), eol |-> FALSE]}],
    [name |-> "inline_image", text |-> "img",
     pattern |-> {[bol |-> FALSE, items |->
         Lits(<<"i", "m", "g">>), eol |-> FALSE]}],
    [name |-> "inline_macro", text |-> "span",
     pattern |-> {[bol |-> FALSE, items |->
         Lits(<<"s", "p", "a", "n">>), eol |-> FALSE]}],
    [name |-> "inline_attributes", text |-> "^span$",
     pattern |-> {[bol |-> TRUE, items |->
         Lits(<<"s", "p", "a", "n">>), eol |-> TRUE]}],
    [name |-> "checklist", text |-> "^ul.checklist$",
     pattern |-> {[bol |-> TRUE, items |->
         Lits(<<"u">>) \o Lits(<<"l">>) \o <<One(AnyChar)>> \o Lits(<<"c">>)
         \o Lits(<<"h">>) \o Lits(<<"e">>) \o Lits(<<"c">>) \o Lits(<<"k">>)
         \o Lits(<<"l">>) \o Lits(<<"i">>) \o Lits(<<"s">>)
         \o Lits(<<"t">>), eol |-> TRUE]}],
    [name |-> "description_list", text |-> "^dl$",
     pattern |-> {[bol |-> TRUE, items |-> Lits(<<"d", "l">>), eol |-> TRUE]}],
    [name |-> "attribute_definitions", text |-> "meta",
     pattern |-> {[bol |-> FALSE, items |->
         Lits(<<"m", "e", "t", "a">>), eol |-> FALSE]}],
    [name |-> "cross_reference", text |-> "a.xref",
     pattern |-> {[bol |-> FALSE, items |->
         Lits(<<"a">>) \o <<One(AnyChar)>> \o Lits(<<"x">>) \o Lits(<<"r">>)
         \o Lits(<<"e">>) \o Lits(<<"f">>), eol |-> FALSE]}],
    [name |-> "anchor", text |-> "a.anchor",
     pattern |-> {[bol |-> FALSE, items |->
         Lits(<<"a">>) \o <<One(AnyChar)>> \o Lits(<<"a">>) \o Lits(<<"n">>)
         \o Lits(<<"c">>) \o Lits(<<"h">>) \o Lits(<<"o">>)
         \o Lits(<<"r">>), eol |-> FALSE]}],
    [name |-> "inline_quote", text |-> "q",
     pattern |-> {[bol |-> FALSE, items |-> Lits(<<"q">>), eol |-> FALSE]}],
    [name |-> "literal_paragraph", text |-> "p.literalblock",
     pattern |-> {[bol |-> FALSE, items |->
         Lits(<<"p">>) \o <<One(AnyChar)>> \o Lits(<<"l">>) \o Lits(<<"i">>)
         \o Lits(<<"t">>) \o Lits(<<"e">>) \o Lits(<<"r">>) \o Lits(<<"a">>)
         \o Lits(<<"l">>) \o Lits(<<"b">>) \o Lits(<<"l">>) \o Lits(<<"o">>)
         \o Lits(<<"c">>) \o Lits(<<"k">>), eol |-> FALSE]}] >>

\* stats[construct] += 1 on a defaultdict(int)
Increment(stats, construct) ==
    IF construct \in DOMAIN stats
    THEN [stats EXCEPT ![construct] = @ + 1]
    ELSE stats @@ (construct :> 1)

\* dict.get(key, default)
Get(d, key, default) == IF key \in DOMAIN d THEN d[key] ELSE default

\* the entries of ASCIIDOC_CONSTRUCTS found in a line, in table order
FoundInLine(line) ==
    SelectSeq(ASCIIDOC_CONSTRUCTS, LAMBDA e : ReSearch(e.pattern, line))

\* the tally after some entries (of different names) were each counted once
IncrementAll(stats, entries) ==
    LET hit == {entries[k].name : k \in 1..Len(entries)}
    IN  [c \in (DOMAIN stats) \cup hit |->
            IF c \in hit THEN Increment(stats, c)[c] ELSE stats[c]]

\* the inner loop of parse_asciidoc: every entry is tested on the line
CountLine(stats, line) == IncrementAll(stats, FoundInLine(line))

RECURSIVE CountLines(_, _)
CountLines(stats, lines) ==
    IF lines = <<>> THEN stats
    ELSE CountLines(CountLine(stats, Head(lines)), Tail(lines))

\* a parse_asciidoc that starts from a tally with every construct at zero
ParseAsciidocZeroFilled(text) ==
    CountLines([c \in {ASCIIDOC_CONSTRUCTS[k].name :
                         k \in 1..Len(ASCIIDOC_CONSTRUCTS)} |-> 0],
               SplitLines(text))

\* parse_asciidoc: the tally of the source text
ParseAsciidoc(text) == CountLines(EmptyDict, SplitLines(text))

\* the log entries of one line, in table order
LogLine(line, fname, line_no) ==
    LET found == FoundInLine(line)
    IN  [k \in 1..Len(found) |-> <<"Found", found[k].name, fname, line_no>>]

RECURSIVE LogLines(_, _, _)
\* what parse_asciidoc writes to the error stream through log_construct
LogLines(lines, fname, line_no) ==
    IF lines = <<>> THEN <<>>
    ELSE LogLine(Head(lines), fname, line_no)
         \o LogLines(Tail(lines), fname, line_no + 1)

\* tag.get(attr) is truthy
HasAttr(tag, attr) == attr \in DOMAIN tag.attrs /\ tag.attrs[attr] # <<>>

\* tag.get('class') and cls in tag['class']
HasClass(tag, cls) ==
    /\ HasAttr(tag, "class")
    /\ \E i \in 1..Len(tag.attrs["class"]) : tag.attrs["class"][i] = cls

\* whether parse_html counts the tag for the entry: the if and its elif chain
TagCounts(entry, tag) ==
    \/ ReMatch(entry.pattern, tag.name)
    \/ entry.name = "admonition" /\ HasClass(tag, "admonitionblock")
    \/ entry.name = "checklist" /\ HasClass(tag, "checklist")
    \/ entry.name = "inline_link" /\ tag.name = <<"a">> /\ HasAttr(tag, "href")
    \/ entry.name = "cross_reference" /\ HasClass(tag, "xref")
    \/ entry.name = "anchor" /\ HasClass(tag, "anchor")
    \/ entry.name = "literal_paragraph" /\ HasClass(tag, "literalblock")

\* the inner loop of parse_html: every entry is tested on the tag
CountTag(stats, tag) ==
    IncrementAll(stats,
                 SelectSeq(HTML_CONSTRUCTS, LAMBDA e : TagCounts(e, tag)))

RECURSIVE CountTags(_, _)
CountTags(stats, tags) ==
    IF tags = <<>> THEN stats
    ELSE CountTags(CountTag(stats, Head(tags)), Tail(tags))

\* parse_html: the tally of the tags of the document, in document order
\* (the tags are what soup.find_all(True) yields)
ParseHtml(tags) == CountTags(EmptyDict, tags)

\* the pattern text of a construct in HTML_CONSTRUCTS, or "N/A"
HtmlConstructText(construct) ==
    LET ks == {k \in 1..Len(HTML_CONSTRUCTS) : HTML_CONSTRUCTS[k].name = construct}
    IN  IF ks = {} THEN "N/A" ELSE HTML_CONSTRUCTS[CHOOSE k \in ks : TRUE].text

\* the rows output_csv writes after the header, one per construct of the union
\* of the two tallies (their order is that of a set: the rows are kept as a bag)
CsvRows(a_stats, h_stats) ==
    SetToBag({ [AsciiDocConstruct |-> c,
                HTMLConstruct |-> HtmlConstructText(c),
                AsciiDocCount |-> Get(a_stats, c, 0),
                HTMLCount |-> Get(h_stats, c, 0)] :
               c \in (DOMAIN a_stats) \cup (DOMAIN h_stats) })

fieldnames == <<"AsciiDoc Construct", "HTML Construct", "AsciiDoc Count",
                "HTML Count">>

(***************************************************************************)
(* One run of the census: main of stats.py.                                *)
(***************************************************************************)
Line_heading == <<"=", "=", " ", "T">>
Line_heading_bold == <<"=", "=", " ", "*", "*", "b", "*", "*">>
Line_plain == <<"x">>
Line_link == <<"h", "t", "t", "p", ":", "/", "/", "u">>
LinePool == {Line_heading, Line_heading_bold, Line_plain, Line_link}

RECURSIVE JoinLines(_)
\* the text of a document whose lines are ls
JoinLines(ls) ==
    IF ls = <<>> THEN <<>> ELSE Head(ls) \o <<NL>> \o JoinLines(Tail(ls))

Documents ==
    {JoinLines(ls) : ls \in UNION {[1..n -> LinePool] : n \in 0..MaxDocLines}}

Tag_a_href == [name |-> <<"a">>, attrs |-> [href |-> <<"u">>]]
Tag_a_bare == [name |-> <<"a">>, attrs |-> [id |-> <<"t">>]]
Tag_abbr == [name |-> <<"a", "b", "b", "r">>, attrs |-> [title |-> <<"t">>]]
Tag_h2 == [name |-> <<"h", "2">>, attrs |-> [id |-> <<"t">>]]
Tag_admonition ==
    [name |-> <<"d", "i", "v">>,
     attrs |-> [class |-> <<"admonitionblock", "note">>]]
TagPool == {Tag_a_href, Tag_a_bare, Tag_abbr, Tag_h2, Tag_admonition}

\* the tag lists of the documents the renderer can print
Renderings == UNION {[1..n -> TagPool] : n \in 0..MaxNodes}

CensusInit ==
    /\ cpc = "start" /\ filename = "" /\ content = <<>>
    /\ process = NoProcess /\ html_content = <<>>
    /\ asciidoc_stats = EmptyDict /\ html_stats = EmptyDict
    /\ csvfile = NoOutput /\ stderr = <<>> /\ exit_code = 0 /\ trace = <<>>
    /\ apc = "idle" /\ raw_lines = <<>> /\ result = None
    /\ total = 0 /\ alnum = 0 /\ special = 0 /\ comments = 0
    /\ definitions = {}
    /\ ipc = "idle" /\ base_dir = <<>> /\ paths = <<>> /\ fs = <<>>
    /\ results = <<>> /\ records = <<>> /\ count = 0
    /\ db = EmptyDb /\ txn = EmptyDb /\ wpc = "idle" /\ cursor = 0
    /\ rescan = FALSE

CensusUnchanged == UNCHANGED <<avars, ivars, dvars>>

\* sys.exit(1) after printing the error
Fatal(message) ==
    /\ stderr' = Append(stderr, message)
    /\ exit_code' = 1
    /\ cpc' = "exit"

\* the renderer's exit status makes convert_asciidoc_to_html raise
RenderFailedNever(p) == FALSE

RenderFailed(p) == p.returncode # 0

\* main starts; convert_asciidoc_to_html reads standard input or the file
ReadInput ==
    /\ cpc = "start"
    /\ \E name \in {"stdin", "doc.adoc"} : filename' = name
    /\ \E text \in Documents : content' = text
    /\ stderr' = Append(stderr, <<"Parsing AsciiDoc content...">>)
    /\ trace' = Append(trace, "read")
    /\ cpc' = "render"
    /\ UNCHANGED <<process, html_content, asciidoc_stats, html_stats, csvfile,
                   exit_code>>
    /\ CensusUnchanged

\* open or read raises: "Error: ..." and exit status 1
InputFail ==
    /\ cpc = "start"
    /\ stderr' = << <<"Parsing AsciiDoc content...">>, <<"Error", "read">> >>
    /\ exit_code' = 1
    /\ cpc' = "exit"
    /\ UNCHANGED <<filename, content, process, html_content, asciidoc_stats,
                   html_stats, csvfile, trace>>
    /\ CensusUnchanged

\* subprocess.run returns: asciidoctor printed a document and exited with 0,
\* or exited with another status and an error text
RunRenderer ==
    /\ cpc = "render"
    /\ \/ \E tags \in Renderings :
             process' = [returncode |-> 0, stdout |-> tags, stderr |-> ""]
       \/ process' = [returncode |-> 1, stdout |-> <<>>, stderr |-> "failed"]
    /\ trace' = Append(trace, "render")
    /\ cpc' = "check"
    /\ UNCHANGED <<filename, content, html_content, asciidoc_stats, html_stats,
                   csvfile, stderr, exit_code>>
    /\ CensusUnchanged

\* subprocess.run raises (asciidoctor cannot be started)
RunRendererRaises ==
    /\ cpc = "render"
    /\ Fatal(<<"Error", "run">>)
    /\ UNCHANGED <<filename, content, process, html_content, asciidoc_stats,
                   html_stats, csvfile, trace>>
    /\ CensusUnchanged

\* returncode != 0: the exception is caught, printed, exit status 1
CheckFail ==
    /\ cpc = "check" /\ RenderFailed(process)
    /\ Fatal(<<"Error", "asciidoctor failed with error", process.stderr>>)
    /\ UNCHANGED <<filename, content, process, html_content, asciidoc_stats,
                   html_stats, csvfile, trace>>
    /\ CensusUnchanged

\* returncode == 0: content, process.stdout and filename are returned
CheckOk ==
    /\ cpc = "check" /\ ~RenderFailed(process)
    /\ html_content' = process.stdout
    /\ cpc' = "parse_asciidoc"
    /\ UNCHANGED <<filename, content, process, asciidoc_stats, html_stats,
                   csvfile, stderr, exit_code, trace>>
    /\ CensusUnchanged

\* asciidoc_stats = parse_asciidoc(content, filename), every match logged
DoParseAsciidoc ==
    /\ cpc = "parse_asciidoc"
    /\ asciidoc_stats' = ParseAsciidoc(content)
    /\ stderr' = stderr \o LogLines(SplitLines(content), filename, 1)
                   \o << <<"AsciiDoc parsing complete.">> >>
    /\ trace' = Append(trace, "parse_asciidoc")
    /\ cpc' = "parse_html"
    /\ UNCHANGED <<filename, content, process, html_content, html_stats,
                   csvfile, exit_code>>
    /\ CensusUnchanged

\* html_stats = parse_html(html_content)
DoParseHtml ==
    /\ cpc = "parse_html"
    /\ html_stats' = ParseHtml(html_content)
    /\ stderr' = stderr \o << <<"Parsing HTML content...">>,
                             <<"HTML parsing complete.">> >>
    /\ trace' = Append(trace, "parse_html")
    /\ cpc' = "output"
    /\ UNCHANGED <<filename, content, process, html_content, asciidoc_stats,
                   csvfile, exit_code>>
    /\ CensusUnchanged

\* output_csv writes the header and the rows
OutputCsv ==
    /\ cpc = "output"
    /\ csvfile' = [header |-> fieldnames,
                   rows |-> CsvRows(asciidoc_stats, html_stats)]
    /\ trace' = Append(trace, "output_csv")
    /\ cpc' = "done"
    /\ UNCHANGED <<filename, content, process, html_content, asciidoc_stats,
                   html_stats, stderr, exit_code>>
    /\ CensusUnchanged

\* the output file cannot be opened: caught by main, exit status 1
OutputFail ==
    /\ cpc = "output"
    /\ Fatal(<<"Error", "write">>)
    /\ UNCHANGED <<filename, content, process, html_content, asciidoc_stats,
                   html_stats, csvfile, trace>>
    /\ CensusUnchanged

CensusNext ==
    \/ ReadInput \/ InputFail \/ RunRenderer \/ RunRendererRaises
    \/ CheckFail \/ CheckOk \/ DoParseAsciidoc \/ DoParseHtml
    \/ OutputCsv \/ OutputFail

\* one run of the census
SpecCensus == CensusInit /\ [][CensusNext]_vars

(***************************************************************************)
(* Properties of analyze_file.                                             *)
(***************************************************************************)
\* the branch of the priority chain a raw line takes
Kind(raw) ==
    LET line == LStrip(raw)
    IN  CASE line = <<>> -> "blank"
          [] line # <<>> /\ StartsWith(line, <<"/", "/">>) -> "comment"
          [] line # <<>> /\ ~StartsWith(line, <<"/", "/">>)
                /\ line[1] = ":" -> "definition"
          [] OTHER -> IF IsAlnum(line[1]) THEN "alnum" ELSE "special"

\* how many of the first n lines of the file take branch k
CountKind(n, k) == Cardinality({i \in 1..n : Kind(raw_lines[i]) = k})

NonBlank(n) == Cardinality({i \in 1..n : Kind(raw_lines[i]) # "blank"})

\* the pair a definition line stands for, as the specification words it
ExpectedPair(raw) ==
    LET rest == Strip(Drop(LStrip(raw), 1))
        colons == {i \in 1..Len(rest) : rest[i] = ":"}
        k == IF colons = {} THEN 0
             ELSE CHOOSE i \in colons : \A j \in colons : i <= j
    IN  IF k = 0 THEN <<rest, <<>>>>
        ELSE <<Strip(Take(rest, k - 1)), Strip(Drop(rest, k))>>

Returned == apc = "done" /\ result # None

C9_DefinitionParsing ==
    apc \in {"read", "done"} =>
        /\ definitions =
              {ExpectedPair(raw_lines[i]) :
                 i \in {j \in 1..total :
                          /\ Kind(raw_lines[j]) = "definition"
                          /\ ExpectedPair(raw_lines[j])[1] # <<>>}}
        /\ (raw_lines = <<Str_foo_bar>> /\ total = 1) =>
              definitions = {<<(<<"f", "o", "o">>), (<<"b", "a", "r">>)>>}
        /\ (raw_lines = <<Str_flagonly>> /\ total = 1) =>
              definitions =
                 {<<(<<"f", "l", "a", "g", "o", "n", "l", "y">>), <<>>>>}
        /\ (raw_lines = <<Str_colon>> /\ total = 1) => definitions = {}

\* ':foo: bar' was read and gave ("foo", "bar")
C9_Witness ==
    /\ Returned
    /\ raw_lines = <<Str_foo_bar>>
    /\ result.definitions_list = <<(<<(<<"f", "o", "o">>), (<<"b", "a", "r">>)>>)>>

(***************************************************************************)
(* Properties of write_to_db and the store.                                *)
(***************************************************************************)
\* C3: a run that writes the same records as the committed run before it
\* leaves every table as that run left it.
C3_RescanIdempotent ==
    [][(wpc = "insert" /\ wpc' = "committed" /\ rescan) => db' = db]_vars

\* a rescan committed on a store holding files, definitions and join rows
C3_Witness ==
    /\ wpc = "committed" /\ rescan
    /\ BagCardinality(db.files) = 2
    /\ BagCardinality(db.file_attributes) >= 2

\* C5: the durable store changes only at the commit that follows the last
\* insert of the batch, and then by the whole batch; a run that ends in a
\* storage error leaves the store as it was before the batch.
C5_BatchAllOrNothing ==
    [][/\ db' # db =>
            /\ wpc = "insert" /\ wpc' = "committed"
            /\ cursor = Len(Statements(records))
            /\ db' = WriteToDb(db, records)
       /\ wpc' = "crashed" => db' = db]_vars

\* a run that crashed after some inserts, the store still empty
C5_Witness ==
    /\ wpc = "crashed" /\ cursor >= 2 /\ db = EmptyDb

\* every join row refers to rows that exist
RefInt(d) ==
    /\ \A fa \in BagToSet(d.file_attributes) :
          /\ \E f \in BagToSet(d.files) : f.path = fa[1]
          /\ BagIn(fa[2], d.attributes)
    /\ \A av \in BagToSet(d.attribute_values) :
          /\ BagIn(av[1], d.attributes)
          /\ BagIn(av[2], d.values_tbl)

FileKeys(d) == {f.path : f \in BagToSet(d.files)}

\* C10: the store keeps referential integrity, and no step removes a row of
\* attributes, values_tbl, file_attributes or attribute_values, or a files key.
C10_ReferentialIntegrity ==
    /\ [](RefInt(db))
    /\ [][/\ FileKeys(db) \subseteq FileKeys(db')
          /\ BagToSet(db.attributes) \subseteq BagToSet(db'.attributes)
          /\ BagToSet(db.values_tbl) \subseteq BagToSet(db'.values_tbl)
          /\ BagToSet(db.file_attributes) \subseteq BagToSet(db'.file_attributes)
          /\ BagToSet(db.attribute_values)
                \subseteq BagToSet(db'.attribute_values)]_vars

\* two files with their join rows committed, one value being empty
C10_Witness ==
    /\ wpc = "committed"
    /\ BagCardinality(db.files) = 2
    /\ BagIn(<<(<<"k">>), <<>>>>, db.attribute_values)
    /\ BagCardinality(db.file_attributes) >= 3

(***************************************************************************)
(* Properties of a run of the indexer.                                     *)
(***************************************************************************)
\* C2 as stated: when no file is listed twice, the analyzed files get
\* pairwise different path keys, so the files table holds one row per
\* analyzed file and the count returned is the number of rows written.
C2_UniquePathKeys ==
    (ipc = "done" /\ \A i, j \in 1..Len(paths) : i # j => paths[i] # paths[j])
        => /\ \A i, j \in 1..Len(records) :
                 i # j => records[i].path # records[j].path
           /\ BagCardinality(db.files) = count

IsOk(p) == fs[p].status = "ok"

\* C4: when the run ends, the records are those of the readable files alone,
\* in order, each what analyze_file gives for that file by itself; the count
\* is their number; the store holds what these records write, and nothing
\* under the key of a file that failed; a failing file never has a record.
C4_FailedFilesExcluded ==
    /\ ipc \in {"analyze", "done"} =>
          \A i \in 1..Len(paths) :
             ~IsOk(paths[i]) => results[i] \in {Pending, None, Yielded}
    /\ ipc = "done" =>
          LET good == SelectSeq(paths, IsOk)
          IN  /\ Len(records) = Len(good)
              /\ count = Len(good)
              /\ \A k \in 1..Len(good) :
                    records[k] \in AnalyzeFile(good[k], base_dir, fs[good[k]])
              /\ db = WriteToDb(EmptyDb, records)
              /\ BagCardinality(db.files) <= Len(good)
              /\ \A i \in 1..Len(paths) :
                    (/\ ~IsOk(paths[i])
                     /\ \A k \in 1..Len(good) :
                           RelPath(good[k], base_dir)
                              # RelPath(paths[i], base_dir))
                    => /\ RelPath(paths[i], base_dir) \notin FileKeys(db)
                       /\ \A fa \in BagToSet(db.file_attributes) :
                             fa[1] # RelPath(paths[i], base_dir)

\* a finished run of one unreadable and one readable file
C4_Witness ==
    /\ ipc = "done" /\ Len(paths) = 2 /\ count = 1
    /\ fs[paths[1]].status = "noread"
    /\ BagCardinality(db.file_attributes) >= 1

(***************************************************************************)
(* Properties of a run of the census.                                      *)
(***************************************************************************)
Classified == cpc \in {"output", "done"} \/ (cpc = "exit" /\ Len(trace) = 4)

\* C6 as stated: the inline_link count of the rendered side is the number of
\* tags named exactly 'a' that carry a non-empty href.
C6_InlineLinkNeedsHref ==
    Classified =>
        Get(html_stats, "inline_link", 0) =
            Cardinality({i \in 1..Len(html_content) :
                           /\ html_content[i].name = <<"a">>
                           /\ "href" \in DOMAIN html_content[i].attrs
                           /\ html_content[i].attrs["href"] # <<>>})

ConstructNames ==
    {ASCIIDOC_CONSTRUCTS[k].name : k \in 1..Len(ASCIIDOC_CONSTRUCTS)}
       \cup {HTML_CONSTRUCTS[k].name : k \in 1..Len(HTML_CONSTRUCTS)}

\* the number of lines of the document in which the construct is found
SourceMatches(c) ==
    LET lines == SplitLines(content)
    IN  Cardinality({i \in 1..Len(lines) :
           \E k \in 1..Len(ASCIIDOC_CONSTRUCTS) :
              /\ ASCIIDOC_CONSTRUCTS[k].name = c
              /\ ReSearch(ASCIIDOC_CONSTRUCTS[k].pattern, lines[i])})

\* C7: the report is the header followed by exactly one row per construct
\* counted on either side, with both counts (0 for the side that did not count
\* it); a construct found in no line of the source and counted for no tag has
\* no row, so every row has a count above zero.
C7_OneRowPerCountedConstruct ==
    cpc = "done" =>
        /\ csvfile.header = fieldnames
        /\ \A c \in ConstructNames :
              LET rows == {r \in BagToSet(csvfile.rows) :
                             r.AsciiDocConstruct = c}
                  n == SourceMatches(c)
                  m == Get(html_stats, c, 0)
              IN  IF n = 0 /\ m = 0 THEN rows = {}
                  ELSE /\ rows = {[AsciiDocConstruct |-> c,
                                   HTMLConstruct |-> HtmlConstructText(c),
                                   AsciiDocCount |-> n,
                                   HTMLCount |-> m]}
                       /\ \A r \in rows : CopiesIn(r, csvfile.rows) = 1
        /\ \A r \in BagToSet(csvfile.rows) :
              /\ r.AsciiDocConstruct \in ConstructNames
              /\ r.AsciiDocCount > 0 \/ r.HTMLCount > 0

\* a report with a construct counted only in the source, one counted only in
\* the rendering and one counted on both sides
C7_Witness ==
    /\ cpc = "done"
    /\ \E r \in BagToSet(csvfile.rows) : r.AsciiDocCount > 0 /\ r.HTMLCount = 0
    /\ \E r \in BagToSet(csvfile.rows) : r.AsciiDocCount = 0 /\ r.HTMLCount > 0
    /\ \E r \in BagToSet(csvfile.rows) : r.AsciiDocCount > 0 /\ r.HTMLCount > 0

IsPrefix(s, t) == Len(s) <= Len(t) /\ s = SubSeq(t, 1, Len(s))

====
